---- MODULE Spec2Model ----
(***************************************************************************)
(* A model of src/game.js ("Fetch the Bone"): the per-frame update loop,   *)
(* resetGame, the keyboard / pointer listeners and the hand-control        *)
(* toggle with its asynchronous setup.                                     *)
(*                                                                         *)
(* Numbers.  JavaScript Numbers are modelled in fixed point:               *)
(*   - every length, coordinate and velocity is in hundredths of a pixel   *)
(*     (so the gravity 0.03 of line 104 is 3);                             *)
(*   - handXNormalized is in hundredths (1.0 is 100);                      *)
(*   - spawnInterval is in half frames (80 frames is 160), because line 81 *)
(*     lowers it by 0.5; spawnTimer is in whole frames.                    *)
(* A value that is null in the code is the empty set, a present value v is *)
(* the singleton {v}.                                                      *)
(*                                                                         *)
(* JavaScript runs every callback to completion, so no listener runs       *)
(* inside update().  update() is split into its entry (lines 66-98) and    *)
(* one step per iteration of the loop of lines 101-128; while pc = "loop"  *)
(* no other action is enabled.                                             *)
(***************************************************************************)
EXTENDS Integers, Sequences, FiniteSets

VARIABLES
    score, lives, running,      \* lines 22-24
    player,                     \* lines 25-31
    bones,                      \* line 33
    spawnTimer, spawnInterval,  \* lines 34-35
    keys,                       \* line 38: the set of keys k with keys[k] === true
    mouseX,                     \* line 39
    useHandControl,             \* line 40
    handXNormalized,            \* line 41
    handsLoaded,                \* typeof Hands !== 'undefined' (line 181), fixed per page load
    checked,                    \* enableHand.checked
    setupPending,               \* calls of setupHandControl suspended at the await of line 189
    handsStarted,               \* a Hands instance with the onResults callback exists (lines 193-228)
    pc, i,                      \* position inside update(): "idle" or in the loop at index i
    rafQueue,                   \* callbacks of requestAnimationFrame(update) not yet run (lines 67, 131, 258)
    draws,                      \* calls of draw() by the running or last invocation of update (lines 67, 130)
    gameOverAlerts,             \* alerts scheduled at line 125 since the last resetGame (history)
    frameBones, frameScore, frameLives,
                                \* bones, score and lives at the head of the loop of line 101
                                \* (history, kept while the loop runs)
    lastOp, prevOp,             \* the last two handlers that ran (history, for stating claims)
    ticksLeft,                  \* exploration budget: running ticks still explored
    eventsLeft, idleEventsLeft  \* exploration budgets: input events while running / while not running

gameVars  == <<score, lives, running, player, bones, spawnTimer, spawnInterval>>
inputVars == <<keys, mouseX>>
handVars  == <<useHandControl, handXNormalized, handsLoaded, checked, setupPending, handsStarted>>
loopVars  == <<pc, i>>
schedVars == <<rafQueue, draws>>
frameVars == <<frameBones, frameScore, frameLives>>
histVars  == <<lastOp, prevOp>>
budgetVars == <<ticksLeft, eventsLeft, idleEventsLeft>>
vars == <<gameVars, inputVars, handVars, loopVars, schedVars, gameOverAlerts, frameVars,
          histVars, budgetVars>>

(***************************************************************************)
(* Program constants (hundredths of a pixel unless said otherwise).        *)
(***************************************************************************)
\* canvas.width and canvas.height come from the page; the model fixes 400 x 300.
CANVAS_W == 40000
CANVAS_H == 30000
PLAYER_W == 12000
PLAYER_H == 8000
PLAYER_SPEED == 800
START_LIVES == 3
REWARD == 10
GRAVITY == 3
SPAWN_Y == 0 - 5000
SPAWN_INTERVAL_0 == 160
SPAWN_INTERVAL_MIN == 60
CATCH_TOLERANCE == 2000
MISS_MARGIN == 5000

(***************************************************************************)
(* Bounds of the exploration.                                              *)
(***************************************************************************)
\* input events (clicks, key and pointer events, hand results) delivered while a
\* session is running, and while none is running, in a history of the fresh page
MaxRunEvents == 3
MaxIdleEvents == 2
\* running ticks explored from the freshly loaded page
FewTicks == 5
\* running ticks explored from a session of a page whose difficulty ramp has run
ManyTicks == 172

\* e.key.toLowerCase() of the key events delivered (one left key, one right key)
KeyInputs == {"arrowleft", "d"}
\* e.clientX - rect.left of the mousemove events delivered (mid-canvas, right edge)
MouseInputs == {CANVAS_W \div 2, CANVAS_W}
\* indexTip.x of the hand results delivered, in hundredths; {} is "no hand in the frame"
HandInputs == {{}, {0 - 50}, {50}, {150}}
\* the values rand() returns at a spawn: x (line 75), vy (line 77), size (line 73)
SpawnXs == {18000, 20000, 34000}
SpawnVys == {200, 380}
SpawnSizes == {2800}

(***************************************************************************)
(* Helpers.                                                                *)
(***************************************************************************)
Val(opt) == CHOOSE v \in opt : TRUE

Max(a, b) == IF a >= b THEN a ELSE b
Min(a, b) == IF a <= b THEN a ELSE b

\* splice(i + 1, 1) for splice(i, 1): the object after the current one is removed
SpliceNext(seq, k) == SubSeq(seq, 1, k) \o SubSeq(seq, k + 2, Len(seq))

\* Array.prototype.splice(k - 1, 1) on a 1-based sequence
Splice(seq, k) == SubSeq(seq, 1, k - 1) \o SubSeq(seq, k + 1, Len(seq))

\* d * 0.25 (line 97) in fixed point, rounded to the nearest unit
Mul025(d) == IF d >= 0 THEN (d + 2) \div 4 ELSE 0 - ((2 - d) \div 4)

\* the player of lines 25-31
NewPlayer ==
    [x |-> CANVAS_W \div 2, y |-> CANVAS_H - 8000, w |-> PLAYER_W, h |-> PLAYER_H,
     speed |-> PLAYER_SPEED]

\* the history of handlers: op has just run
Ran(op) == lastOp' = op /\ prevOp' = lastOp

(***************************************************************************)
(* resetGame, lines 47-51 (the click listener of lines 53-55 only calls it) *)
(***************************************************************************)

\* resetGame without the "lives = 3" of line 48
ResetGameKeepsLives ==
    /\ score' = 0
    /\ bones' = <<>>
    /\ running' = TRUE
    /\ UNCHANGED <<lives, player, spawnTimer, spawnInterval>>

ResetGame ==
    /\ score' = 0
    /\ lives' = START_LIVES
    /\ bones' = <<>>
    /\ running' = TRUE
    /\ UNCHANGED <<player, spawnTimer, spawnInterval>>

(***************************************************************************)
(* update(), lines 66-132.                                                 *)
(***************************************************************************)
\* line 71 with > for >=
SpawnDueStrict(timer, interval) == 2 * timer > interval

\* line 71
SpawnDue(timer, interval) == 2 * timer >= interval

\* line 81 without its test: the interval has no floor
NextSpawnIntervalNoFloor(interval) == interval - 1

\* line 81
NextSpawnInterval(interval) ==
    IF interval > SPAWN_INTERVAL_MIN THEN interval - 1 ELSE interval

\* lines 73-79
NewBone(bx, bvy, bsize) == [x |-> bx, y |-> SPAWN_Y, vy |-> bvy, size |-> bsize]

\* lines 90-94 in the other order: the pointer overrides the hand
TargetXPointerLast ==
    LET t0 == player.x
        t1 == IF "arrowleft" \in keys \/ "a" \in keys THEN t0 - player.speed * 2 ELSE t0
        t2 == IF "arrowright" \in keys \/ "d" \in keys THEN t1 + player.speed * 2 ELSE t1
        t3 == IF useHandControl /\ handXNormalized # {}
              THEN (Val(handXNormalized) * (CANVAS_W - player.w)) \div 100
              ELSE t2
    IN  IF mouseX # {} THEN Val(mouseX) - player.w \div 2 ELSE t3

\* line 88 with -= for +=: the right keys move left
TargetXRightIsLeft ==
    LET t0 == player.x
        t1 == IF "arrowleft" \in keys \/ "a" \in keys THEN t0 - player.speed * 2 ELSE t0
        t2 == IF "arrowright" \in keys \/ "d" \in keys THEN t1 - player.speed * 2 ELSE t1
        t3 == IF mouseX # {} THEN Val(mouseX) - player.w \div 2 ELSE t2
    IN  IF useHandControl /\ handXNormalized # {}
        THEN (Val(handXNormalized) * (CANVAS_W - player.w)) \div 100
        ELSE t3

\* line 90 as "else if": the pointer is read only when no key is held
TargetXKeysBeforePointer ==
    LET t0 == player.x
        t1 == IF "arrowleft" \in keys \/ "a" \in keys THEN t0 - player.speed * 2 ELSE t0
        t2 == IF "arrowright" \in keys \/ "d" \in keys THEN t1 + player.speed * 2 ELSE t1
        t3 == IF mouseX # {} /\ t2 = t0 THEN Val(mouseX) - player.w \div 2 ELSE t2
    IN  IF useHandControl /\ handXNormalized # {}
        THEN (Val(handXNormalized) * (CANVAS_W - player.w)) \div 100
        ELSE t3

\* lines 85-94
TargetX ==
    LET t0 == player.x
        t1 == IF "arrowleft" \in keys \/ "a" \in keys THEN t0 - player.speed * 2 ELSE t0
        t2 == IF "arrowright" \in keys \/ "d" \in keys THEN t1 + player.speed * 2 ELSE t1
        t3 == IF mouseX # {} THEN Val(mouseX) - player.w \div 2 ELSE t2
    IN  IF useHandControl /\ handXNormalized # {}
        THEN (Val(handXNormalized) * (CANVAS_W - player.w)) \div 100
        ELSE t3

\* line 98 without the Math.max: only the right edge is enforced
ClampXRightOnly(x) == Min(CANVAS_W - player.w, x)

\* line 98
ClampX(x) == Max(0, Min(CANVAS_W - player.w, x))

\* lines 97-98
MovedX(target) == ClampX(player.x + Mul025(target - player.x))

\* line 104 with -= for +=: the objects slow down
IntegrateSlowing(b) == [b EXCEPT !.y = b.y + b.vy, !.vy = b.vy - GRAVITY]

\* lines 103-104
Integrate(b) == [b EXCEPT !.y = b.y + b.vy, !.vy = b.vy + GRAVITY]

\* line 108 without the tolerance of 20 pixels
CaughtNoTolerance(b, p) ==
    /\ b.y + b.size > p.y /\ b.y < p.y + p.h
    /\ b.x > p.x /\ b.x < p.x + p.w

\* lines 107-108, on the integrated object
Caught(b, p) ==
    /\ b.y + b.size > p.y /\ b.y < p.y + p.h
    /\ b.x > p.x - CATCH_TOLERANCE /\ b.x < p.x + p.w + CATCH_TOLERANCE

\* line 118 without the margin of 50 pixels
MissedNoMargin(b) == b.y > CANVAS_H

\* line 118, on the integrated object
Missed(b) == b.y > CANVAS_H + MISS_MARGIN

\* line 111
ScoreAfterCatch(s) == s + REWARD

\* line 120 taking two lives
LivesAfterMissTwo(l) == l - 2

\* line 120
LivesAfterMiss(l) == l - 1

\* line 122 with < for <=
GameOverBelowZero(l) == l < 0

\* line 122
GameOver(l) == l <= 0

\* where update() stands once the objects of indices > j are done, with q callbacks
\* queued and d calls of draw so far: the loop of line 101 goes on while j >= 0,
\* then lines 130-131 draw and schedule the next frame
AfterIteration(j, q, d) ==
    /\ i' = j
    /\ IF j >= 0
       THEN pc' = "loop" /\ rafQueue' = q /\ draws' = d
       ELSE pc' = "idle" /\ rafQueue' = q + 1 /\ draws' = d + 1

\* line 67 without its return: the spawn timer of line 70 runs while paused
UpdatePausedFallsThrough ==
    /\ pc = "idle"
    /\ rafQueue > 0
    /\ ~running
    /\ spawnTimer' = spawnTimer + 1
    /\ rafQueue' = (rafQueue - 1) + 1
    /\ draws' = 1
    /\ Ran("update")
    /\ UNCHANGED <<score, lives, running, player, bones, spawnInterval,
                   inputVars, handVars, loopVars, gameOverAlerts, frameVars, budgetVars>>

\* line 67 as "if(!running) { draw(); return; }": the next frame is not scheduled
UpdatePausedNoReschedule ==
    /\ pc = "idle"
    /\ rafQueue > 0
    /\ ~running
    /\ rafQueue' = rafQueue - 1
    /\ draws' = 1
    /\ Ran("update")
    /\ UNCHANGED <<gameVars, inputVars, handVars, loopVars, gameOverAlerts, frameVars, budgetVars>>

\* line 67: not running, draw and schedule the next frame
UpdatePaused ==
    /\ pc = "idle"
    /\ rafQueue > 0
    /\ ~running
    /\ rafQueue' = (rafQueue - 1) + 1
    /\ draws' = 1
    /\ Ran("update")
    /\ UNCHANGED <<gameVars, inputVars, handVars, loopVars, gameOverAlerts, frameVars, budgetVars>>

\* lines 70-98 and the loop head of line 101
UpdateRunning ==
    /\ pc = "idle"
    /\ rafQueue > 0
    /\ running
    /\ ticksLeft > 0
    /\ ticksLeft' = ticksLeft - 1
    /\ IF SpawnDue(spawnTimer + 1, spawnInterval)
       THEN /\ spawnTimer' = 0
            /\ \E bx \in SpawnXs, bvy \in SpawnVys, bsize \in SpawnSizes :
                   bones' = Append(bones, NewBone(bx, bvy, bsize))
            /\ spawnInterval' = NextSpawnInterval(spawnInterval)
       ELSE /\ spawnTimer' = spawnTimer + 1
            /\ UNCHANGED <<bones, spawnInterval>>
    /\ player' = [player EXCEPT !.x = MovedX(TargetX)]
    /\ AfterIteration(Len(bones') - 1, rafQueue - 1, 0)
    /\ IF Len(bones') > 0
       THEN frameBones' = bones' /\ frameScore' = score /\ frameLives' = lives
       ELSE frameBones' = <<>> /\ frameScore' = 0 /\ frameLives' = 0
    /\ Ran("update")
    /\ UNCHANGED <<score, lives, running, inputVars, handVars, gameOverAlerts,
                   eventsLeft, idleEventsLeft>>

\* one iteration of lines 101-128, on bones[i] (bones[i + 1] of the sequence)
UpdateLoop ==
    /\ pc = "loop"
    /\ LET b == Integrate(bones[i + 1])
       IN  IF Caught(b, player)
           THEN /\ bones' = Splice(bones, i + 1)
                /\ score' = ScoreAfterCatch(score)
                /\ UNCHANGED <<lives, running, gameOverAlerts>>
           ELSE IF Missed(b)
           THEN /\ bones' = Splice(bones, i + 1)
                /\ lives' = LivesAfterMiss(lives)
                /\ running' = IF GameOver(lives') THEN FALSE ELSE running
                /\ gameOverAlerts' = IF GameOver(lives') THEN gameOverAlerts + 1
                                     ELSE gameOverAlerts
                /\ UNCHANGED score
           ELSE /\ bones' = [bones EXCEPT ![i + 1] = b]
                /\ UNCHANGED <<score, lives, running, gameOverAlerts>>
    /\ AfterIteration(i - 1, rafQueue, draws)
    /\ IF i - 1 >= 0
       THEN UNCHANGED frameVars
       ELSE frameBones' = <<>> /\ frameScore' = 0 /\ frameLives' = 0
    /\ UNCHANGED <<player, spawnTimer, spawnInterval, inputVars, handVars, histVars, budgetVars>>

(***************************************************************************)
(* Input events.  An event is delivered between two frames.                *)
(***************************************************************************)
Deliver ==
    /\ pc = "idle"
    /\ IF running
       THEN eventsLeft > 0 /\ eventsLeft' = eventsLeft - 1 /\ UNCHANGED idleEventsLeft
       ELSE idleEventsLeft > 0 /\ idleEventsLeft' = idleEventsLeft - 1 /\ UNCHANGED eventsLeft
    /\ UNCHANGED <<loopVars, schedVars, frameVars, ticksLeft>>

\* lines 53-55
StartClick ==
    /\ Deliver
    /\ ResetGame
    /\ gameOverAlerts' = 0
    /\ Ran("resetGame")
    /\ UNCHANGED <<inputVars, handVars>>

\* line 58
KeyDown ==
    /\ Deliver
    /\ \E k \in KeyInputs : keys' = keys \cup {k}
    /\ Ran("keydown")
    /\ UNCHANGED <<gameVars, mouseX, handVars, gameOverAlerts>>

\* line 59
KeyUp ==
    /\ Deliver
    /\ \E k \in KeyInputs : keys' = keys \ {k}
    /\ Ran("keyup")
    /\ UNCHANGED <<gameVars, mouseX, handVars, gameOverAlerts>>

\* lines 60-63
MouseMove ==
    /\ Deliver
    /\ \E m \in MouseInputs : mouseX' = {m}
    /\ Ran("mousemove")
    /\ UNCHANGED <<gameVars, keys, handVars, gameOverAlerts>>

(***************************************************************************)
(* Hand control, lines 180-254.                                            *)
(***************************************************************************)
\* lines 233-254: the user flips the checkbox and the change listener runs up to
\* its first await (line 189, inside setupHandControl) or to its end
EnableHandChange ==
    /\ Deliver
    /\ checked' = ~checked
    /\ IF checked'
       THEN /\ setupPending' = IF handsLoaded THEN setupPending + 1 ELSE setupPending
            /\ UNCHANGED <<useHandControl, handXNormalized>>
       ELSE /\ useHandControl' = FALSE
            /\ handXNormalized' = {}
            /\ UNCHANGED setupPending
    /\ Ran("change")
    /\ UNCHANGED <<gameVars, inputVars, handsLoaded, handsStarted, gameOverAlerts>>

\* lines 190-229: getUserMedia resolved, the rest of setupHandControl runs
SetupResolved ==
    /\ pc = "idle"
    /\ setupPending > 0
    /\ setupPending' = setupPending - 1
    /\ handsStarted' = TRUE
    /\ useHandControl' = TRUE
    /\ Ran("setupResolved")
    /\ UNCHANGED <<gameVars, inputVars, handXNormalized, handsLoaded, checked, loopVars,
                   schedVars, gameOverAlerts, frameVars, budgetVars>>

\* lines 237-242 without the "useHandControl = false" of line 239
SetupRejectedKeepsFlag ==
    /\ pc = "idle"
    /\ setupPending > 0
    /\ setupPending' = setupPending - 1
    /\ checked' = FALSE
    /\ Ran("setupRejected")
    /\ UNCHANGED <<gameVars, inputVars, useHandControl, handXNormalized, handsLoaded,
                   handsStarted, loopVars, schedVars, gameOverAlerts, frameVars, budgetVars>>

\* lines 237-242: getUserMedia rejected, the catch block runs
SetupRejected ==
    /\ pc = "idle"
    /\ setupPending > 0
    /\ setupPending' = setupPending - 1
    /\ useHandControl' = FALSE
    /\ checked' = FALSE
    /\ Ran("setupRejected")
    /\ UNCHANGED <<gameVars, inputVars, handXNormalized, handsLoaded, handsStarted, loopVars,
                   schedVars, gameOverAlerts, frameVars, budgetVars>>

\* lines 207-218: a result of the Hands instance
HandResults ==
    /\ Deliver
    /\ handsStarted
    /\ \E r \in HandInputs : handXNormalized' = r
    /\ Ran("onResults")
    /\ UNCHANGED <<gameVars, inputVars, useHandControl, handsLoaded, checked, setupPending,
                   handsStarted, gameOverAlerts>>

(***************************************************************************)
(* Initial states.                                                         *)
(***************************************************************************)
\* the input and hand-control state of lines 38-41 with nothing pressed or enabled
InputsUntouched ==
    /\ keys = {}
    /\ mouseX = {}
    /\ useHandControl = FALSE
    /\ handXNormalized = {}
    /\ checked = FALSE
    /\ setupPending = 0
    /\ handsStarted = FALSE

\* the page as loaded, lines 22-41 and 256-258
InitPage ==
    /\ score = 0 /\ lives = START_LIVES /\ running = FALSE
    /\ player = NewPlayer
    /\ bones = <<>>
    /\ spawnTimer = 0 /\ spawnInterval = SPAWN_INTERVAL_0
    /\ InputsUntouched
    /\ handsLoaded \in BOOLEAN
    /\ pc = "idle" /\ i = 0 - 1
    /\ rafQueue = 1 /\ draws = 1
    /\ gameOverAlerts = 0
    /\ frameBones = <<>> /\ frameScore = 0 /\ frameLives = 0
    /\ lastOp = "load" /\ prevOp = "load"
    /\ ticksLeft = FewTicks
    /\ eventsLeft = MaxRunEvents
    /\ idleEventsLeft = MaxIdleEvents

\* a later session of the same page: resetGame has just run (lines 47-51) after
\* earlier sessions with 99 spawns in all, played without any key, pointer or hand
\* input; spawnInterval has come down to 30.5 and the click fell 30 frames after
\* the last spawn.  Input events are explored here once the session is over.
InitLateSession ==
    /\ score = 0 /\ lives = START_LIVES /\ running = TRUE
    /\ player = NewPlayer
    /\ bones = <<>>
    /\ spawnTimer = 30 /\ spawnInterval = SPAWN_INTERVAL_MIN + 1
    /\ InputsUntouched
    /\ handsLoaded = TRUE
    /\ pc = "idle" /\ i = 0 - 1
    /\ rafQueue = 1 /\ draws = 1
    /\ gameOverAlerts = 0
    /\ frameBones = <<>> /\ frameScore = 0 /\ frameLives = 0
    /\ lastOp = "resetGame" /\ prevOp = "update"
    /\ ticksLeft = ManyTicks
    /\ eventsLeft = 0
    /\ idleEventsLeft = 1

Init == InitPage \/ InitLateSession

Next ==
    \/ UpdatePaused
    \/ UpdateRunning
    \/ UpdateLoop
    \/ StartClick
    \/ KeyDown
    \/ KeyUp
    \/ MouseMove
    \/ EnableHandChange
    \/ SetupResolved
    \/ SetupRejected
    \/ HandResults

Spec == Init /\ [][Next]_vars

TypeOK ==
    /\ score \in Nat /\ lives \in Int /\ running \in BOOLEAN
    /\ pc \in {"idle", "loop"}
    /\ pc = "idle" => i = 0 - 1
    /\ pc = "loop" => i \in 0 .. Len(bones) - 1

(***************************************************************************)
(* The claims.  In a state with pc = "loop" the next step of the program   *)
(* is the iteration on bones[i + 1]; Current is that object after the      *)
(* integration of lines 103-104.  A step with lastOp' = "resetGame" is a   *)
(* call of resetGame.                                                      *)
(***************************************************************************)
Current == Integrate(bones[i + 1])

\* the object overlaps the player's vertical span
VerticalOverlap(b) == b.y + b.size > player.y /\ b.y < player.y + player.h

\* the object's centre lies strictly inside the player's span widened by 20 pixels
InsideOpen(b) == b.x > player.x - 2000 /\ b.x < player.x + player.w + 2000

\* the object's centre lies inside it, the two end points included
InsideClosed(b) == b.x >= player.x - 2000 /\ b.x <= player.x + player.w + 2000

\* C1: without resetGame, score never decreases and lives never increases; score
\* changes only by +10, in an iteration that catches its object, and lives only
\* by -1, in an iteration that misses its object.
C1_ScoreLivesMonotone ==
    [][ \/ lastOp' = "resetGame"
        \/ /\ score' >= score
           /\ lives' <= lives
           /\ score' # score =>
                  /\ score' = score + 10
                  /\ pc = "loop" /\ VerticalOverlap(Current) /\ InsideOpen(Current)
           /\ lives' # lives =>
                  /\ lives' = lives - 1
                  /\ pc = "loop" /\ Current.y > CANVAS_H + 5000
                  /\ ~(VerticalOverlap(Current) /\ InsideOpen(Current)) ]_vars

\* C1 witness: a session in which an object was caught and another one missed
C1_Witness == running /\ score >= 10 /\ lives = 2 /\ pc = "idle"

\* C2: resetGame leaves score = 0, lives = 3, no bones and running = true, from
\* whatever state it is called in; a second call right after the first changes
\* nothing of the program's state.
C2_ResetState ==
    /\ [](lastOp = "resetGame" =>
              score = 0 /\ lives = 3 /\ bones = <<>> /\ running = TRUE)
    /\ [][ (lastOp = "resetGame" /\ lastOp' = "resetGame") =>
              UNCHANGED <<gameVars, inputVars, handVars, loopVars, schedVars>> ]_vars

\* C2 witness: resetGame called twice in a row
C2_Witness == lastOp = "resetGame" /\ prevOp = "resetGame"

\* C2 witness of the third case: resetGame called on a session that is over
\* (the only click explored in the late session comes once running is false)
C2_WitnessAfterGameOver ==
    lastOp = "resetGame" /\ prevOp = "update" /\ ticksLeft < ManyTicks /\ ticksLeft > FewTicks

\* C3: when a miss leaves lives <= 0, running is false from that iteration on; at
\* every tick boundary running implies 1 <= lives <= 3; running goes from true to
\* false only in a step that leaves lives <= 0.
C3_GameOverTransition ==
    /\ [](lives <= 0 => ~running)
    /\ []((pc = "idle" /\ running) => (1 <= lives /\ lives <= 3))
    /\ [][ (running /\ ~running') => lives' <= 0 ]_vars

\* C3 witness: a session ended by its third miss
C3_Witness == pc = "idle" /\ ~running /\ lives <= 0 /\ lastOp = "update"

\* C4 (as claimed): once running is false, score and lives keep their values
\* until resetGame is called, in the rest of that tick as in later ticks.
C4_FrozenAfterGameOver ==
    [][ (~running /\ lastOp' # "resetGame") =>
            (score' = score /\ lives' = lives) ]_vars

\* C5: with running false at a tick boundary, a tick (or an input event) leaves
\* score, lives, bones, spawnTimer, spawnInterval and the player unchanged and
\* running false; only resetGame sets running to true.
C5_PausedFrame ==
    /\ [][ (pc = "idle" /\ ~running /\ lastOp' # "resetGame") =>
               UNCHANGED gameVars ]_vars
    /\ [][ (~running /\ running') => lastOp' = "resetGame" ]_vars

\* C5 witness: a tick of a session that is over, taken after an input event
C5_Witness ==
    pc = "idle" /\ ~running /\ lives <= 0 /\ lastOp = "update" /\ prevOp = "keydown"

\* C6 (as claimed): an object that overlaps the player vertically after integration
\* and whose centre x is in the closed interval [player.x - 20, player.x + w + 20]
\* is removed and scores exactly 10 in that iteration.
C6_CatchClosedInterval ==
    [][ (pc = "loop" /\ VerticalOverlap(Current) /\ InsideClosed(Current)) =>
            (bones' = Splice(bones, i + 1) /\ score' = score + 10) ]_vars

\* C6 (amended): the same with the open interval (player.x - 20, player.x + w + 20):
\* an object whose centre is exactly on an end point is not caught.
C6_CatchOpenInterval ==
    /\ [][ (pc = "loop" /\ VerticalOverlap(Current) /\ InsideOpen(Current)) =>
               (bones' = Splice(bones, i + 1) /\ score' = score + 10) ]_vars
    /\ [][ (pc = "loop" /\ VerticalOverlap(Current) /\ ~InsideOpen(Current)) =>
               score' = score ]_vars

\* C6 witness: the iteration that is about to catch an object, with another object
\* already caught in the session
C6_Witness ==
    pc = "loop" /\ score >= 10 /\ VerticalOverlap(Current) /\ InsideOpen(Current)

\* C7: an object whose y after integration exceeds CANVAS_H + 50 and that is not
\* caught is removed and costs exactly one life; an object with
\* y <= CANVAS_H + 50 costs no life.
C7_Miss ==
    /\ [][ (pc = "loop" /\ Current.y > CANVAS_H + 5000
                /\ ~(VerticalOverlap(Current) /\ InsideOpen(Current))) =>
               (bones' = Splice(bones, i + 1) /\ lives' = lives - 1) ]_vars
    /\ [][ (pc = "loop" /\ Current.y <= CANVAS_H + 5000) => lives' = lives ]_vars

\* C7 witness: the iteration that is about to miss an object, after an earlier miss
C7_Witness == pc = "loop" /\ lives = 2 /\ Current.y > CANVAS_H + 5000

\* C8 (as claimed): resetGame puts spawnTimer back to 0 and spawnInterval to 80.
C8_ResetRestoresSpawnState ==
    [][ lastOp' = "resetGame" => (spawnTimer' = 0 /\ spawnInterval' = 160) ]_vars

\* C9: spawnInterval stays within [30, 80]; no step raises it; a spawn lowers it by
\* exactly 0.5 above 30 and leaves it at 30; nothing but a spawn changes it.
C9_SpawnIntervalRange ==
    /\ [](60 <= spawnInterval /\ spawnInterval <= 160)
    /\ [][ /\ spawnInterval' <= spawnInterval
           /\ Len(bones') > Len(bones) =>
                  spawnInterval' = IF spawnInterval > 60 THEN spawnInterval - 1 ELSE 60
           /\ spawnInterval' # spawnInterval => Len(bones') = Len(bones) + 1 ]_vars

\* C9 witness: a spawn has happened at the floor (two objects since the interval was 30.5)
C9_Witness == spawnInterval = 60 /\ Len(bones) >= 2

\* C10: player.x lies in [0, CANVAS_W - player.w] after every running tick, whatever
\* the keys, the pointer and the hand coordinate are.
C10_PlayerClamped == 0 <= player.x /\ player.x <= CANVAS_W - 12000

\* C10 witness: a running tick taken under hand control with a coordinate above 1,
\* which leaves the player on the right edge
C10_Witness ==
    /\ lastOp = "update" /\ running /\ pc = "idle"
    /\ useHandControl /\ handXNormalized = {150}
    /\ player.x = CANVAS_W - 12000

(***************************************************************************)
(* Claims about the input reducer and hand control.  A step taken with     *)
(* pc = "idle" and running that ends with lastOp' = "update" is the entry  *)
(* of a running tick: it moves the player.                                 *)
(***************************************************************************)
RunningTick == pc = "idle" /\ running /\ lastOp' = "update"

LeftHeld == "arrowleft" \in keys \/ "a" \in keys
RightHeld == "arrowright" \in keys \/ "d" \in keys
HandPresent == useHandControl /\ handXNormalized # {}

\* the target of the keyboard alone, of the pointer and of the hand
KeyTarget ==
    player.x - (IF LeftHeld THEN 1600 ELSE 0) + (IF RightHeld THEN 1600 ELSE 0)
PointerTarget == Val(mouseX) - 6000
HandTarget == (Val(handXNormalized) * (CANVAS_W - 12000)) \div 100

\* player.x after a tick that aims at target: a quarter of the way, then clamped
SmoothedTo(target) ==
    LET x == player.x + Mul025(target - player.x)
    IN  IF x < 0 THEN 0 ELSE IF x > CANVAS_W - 12000 THEN CANVAS_W - 12000 ELSE x

Dist(a, b) == IF a >= b THEN a - b ELSE b - a

\* C11: a running tick aims at the hand coordinate times (CANVAS_W - player.w) when
\* hand control is active and a coordinate is present, otherwise at mouseX - w/2
\* when mouseX is present, otherwise at player.x -16 / +16 for the keys held.
C11_TargetPrecedence ==
    [][ RunningTick =>
            player'.x = SmoothedTo(IF HandPresent THEN HandTarget
                                   ELSE IF mouseX # {} THEN PointerTarget
                                   ELSE KeyTarget) ]_vars

\* C11 witness: a running tick taken with a key held, the pointer set and an active
\* hand coordinate of 0.5, which the player has followed
C11_Witness ==
    /\ lastOp = "update" /\ prevOp # "update" /\ running /\ pc = "idle"
    /\ keys # {} /\ mouseX # {} /\ useHandControl /\ handXNormalized = {50}
    /\ player.x < CANVAS_W \div 2

\* C12 (as claimed): useHandControl is true only while the checkbox is checked.
C12_HandOnlyWhileChecked == useHandControl => checked

\* C13 (as claimed): once a setup has failed, hand control stays off for the ticks
\* that follow: whatever runs next, short of the user flipping the checkbox again,
\* leaves useHandControl false.
C13_StaysOffAfterFailure ==
    [][ (lastOp = "setupRejected" /\ lastOp' # "change") => ~useHandControl' ]_vars

\* What holds of a failed setup: right after the catch block useHandControl is
\* false, and it is never true when the Hands library is missing; the failing
\* handler leaves the game state alone; the next running tick aims at the pointer
\* or the keys.
SetupFailureHandled ==
    /\ [](lastOp = "setupRejected" => ~useHandControl)
    /\ [](~handsLoaded => (~useHandControl /\ setupPending = 0))
    /\ [][ (lastOp' = "setupRejected" \/ (lastOp' = "change" /\ ~handsLoaded)) =>
               UNCHANGED gameVars ]_vars
    /\ [][ (RunningTick /\ (lastOp = "setupRejected" \/ ~handsLoaded)) =>
               player'.x = SmoothedTo(IF mouseX # {} THEN PointerTarget ELSE KeyTarget) ]_vars

\* a setup fails after another one had switched hand control on, in a running
\* session; the next tick has followed the pointer
SetupFailureHandledWitness ==
    /\ lastOp = "update" /\ prevOp = "setupRejected" /\ running /\ pc = "idle"
    /\ handsStarted /\ ~useHandControl /\ mouseX # {}
    /\ player.x > CANVAS_W \div 2

\* C14: every invocation of update draws exactly once and schedules exactly one
\* next invocation: between frames exactly one callback is queued and the last
\* frame drew once; inside the loop the frame's callback is consumed and nothing
\* is drawn or queued yet.  resetGame and the listeners queue nothing.
C14_OneFrameChain ==
    /\ pc = "idle" => (rafQueue = 1 /\ draws = 1)
    /\ pc = "loop" => (rafQueue = 0 /\ draws = 0)

\* C14 witness: a paused frame has run after the end of a session and a pointer
\* event, with the chain intact
C14_Witness ==
    /\ pc = "idle" /\ ~running /\ lives <= 0 /\ lastOp = "update" /\ prevOp = "mousemove"
    /\ rafQueue = 1 /\ draws = 1

\* C15: on a running tick with a right key held, no left key, no pointer and no
\* hand coordinate in use, player.x grows strictly while it is below
\* CANVAS_W - player.w, never passes it, and stays on it once there.
C15_RightKeyMovesRight ==
    [][ (RunningTick /\ RightHeld /\ ~LeftHeld /\ mouseX = {} /\ ~HandPresent) =>
            IF player.x < CANVAS_W - 12000
            THEN player'.x > player.x /\ player'.x <= CANVAS_W - 12000
            ELSE player'.x = CANVAS_W - 12000 ]_vars

\* C15 witness: a tick taken right after the right key went down, which brought
\* the player onto the right edge from below it
C15_Witness ==
    /\ lastOp = "update" /\ prevOp = "keydown" /\ running /\ pc = "idle"
    /\ keys = {"d"} /\ mouseX = {} /\ ~HandPresent
    /\ player.x = CANVAS_W - 12000

(***************************************************************************)
(* Claims about a whole frame.  frameBones, frameScore and frameLives hold *)
(* the objects, the score and the lives at the head of the loop; the step  *)
(* from pc = "loop" to pc' = "idle" is the end of the frame.               *)
(***************************************************************************)
\* the objects of the frame, each integrated once
FrameIntegrated ==
    [k \in 1 .. Len(frameBones) |->
        [frameBones[k] EXCEPT !.y = frameBones[k].y + frameBones[k].vy,
                              !.vy = frameBones[k].vy + 3]]

IsCaught(b) == VerticalOverlap(b) /\ InsideOpen(b)
IsMissed(b) == ~IsCaught(b) /\ b.y > CANVAS_H + 5000
IsKept(b) == ~IsCaught(b) /\ ~IsMissed(b)

FrameCatches == Cardinality({k \in 1 .. Len(frameBones) : IsCaught(FrameIntegrated[k])})
FrameMisses == Cardinality({k \in 1 .. Len(frameBones) : IsMissed(FrameIntegrated[k])})

\* C16: at the end of a running frame the collection holds exactly the objects of
\* the head of the loop that were neither caught nor missed, each integrated once
\* and in their former order; score has grown by 10 per object caught and lives
\* has fallen by one per object missed.  In each iteration the index goes down by
\* one and the objects not yet visited are untouched.
C16_FrameOutcome ==
    /\ [][ (pc = "loop" /\ pc' = "idle") =>
               /\ bones' = SelectSeq(FrameIntegrated, IsKept)
               /\ score' = frameScore + 10 * FrameCatches
               /\ lives' = frameLives - FrameMisses ]_vars
    /\ [][ pc = "loop" =>
               /\ i' = i - 1
               /\ SubSeq(bones', 1, i) = SubSeq(bones, 1, i)
               /\ SubSeq(bones, 1, i + 1) = SubSeq(frameBones, 1, i + 1) ]_vars

\* C16 witness: the last iteration of a frame that began with four objects and has
\* removed one of the three newer ones, the newest being kept and moved and the
\* oldest still to be visited
C16_Witness ==
    /\ pc = "loop" /\ i = 0 /\ Len(frameBones) = 4 /\ Len(bones) = 3
    /\ bones[1] = frameBones[1]
    /\ bones[3].y > frameBones[4].y /\ bones[3].vy = frameBones[4].vy + GRAVITY

\* C17: a spawn adds exactly one object, happens only in a running tick whose
\* incremented spawnTimer reaches spawnInterval, and zeroes spawnTimer; such a tick
\* always spawns; spawnTimer changes in no other way than by +1 per running tick;
\* 0 <= spawnTimer < spawnInterval in every state; a spawn comes at least 30 ticks
\* after the previous one; the new object has x in [20, CANVAS_W - 20], y = -50,
\* vy in [2, 4] and size in [28, 48].
C17_Spawner ==
    /\ [](0 <= spawnTimer /\ 2 * spawnTimer < spawnInterval)
    /\ [][ Len(bones') > Len(bones) =>
               /\ RunningTick
               /\ bones' = Append(bones, bones'[Len(bones')])
               /\ 2 * (spawnTimer + 1) >= spawnInterval
               /\ spawnTimer + 1 >= 30
               /\ spawnTimer' = 0
               /\ LET b == bones'[Len(bones')]
                  IN  /\ 2000 <= b.x /\ b.x <= CANVAS_W - 2000
                      /\ b.y = 0 - 5000
                      /\ 200 <= b.vy /\ b.vy <= 400
                      /\ 2800 <= b.size /\ b.size <= 4800 ]_vars
    /\ [][ (RunningTick /\ 2 * (spawnTimer + 1) >= spawnInterval) =>
               Len(bones') = Len(bones) + 1 ]_vars
    /\ [][ spawnTimer' # spawnTimer =>
               /\ RunningTick
               /\ spawnTimer' = spawnTimer + 1 \/ Len(bones') = Len(bones) + 1 ]_vars

\* C17 witness: the end of a tick that spawned at the floor of the interval, 30
\* ticks after the previous spawn, the new object integrated once
C17_Witness ==
    /\ pc = "idle" /\ spawnTimer = 0 /\ spawnInterval = 60 /\ Len(bones) >= 2
    /\ bones[Len(bones)].y = bones[Len(bones)].vy - 3 - 5000
    /\ bones[Len(bones) - 1].y > 0

\* C18 (as claimed): between one resetGame and the next at most one game-over
\* alert is scheduled.
C18_OneAlertPerSession == gameOverAlerts <= 1

\* C19: every object in the collection falls at 2 pixels per frame or faster; an
\* object kept by an iteration has moved down by at least 2 pixels and gained
\* speed; between frames every object is at or above CANVAS_H + 50, so none stays
\* longer than (CANVAS_H + 100) / 2 running ticks; at most four objects are alive
\* at once on a canvas of this height.
C19_ObjectsLeave ==
    /\ [](\A k \in 1 .. Len(bones) : bones[k].vy >= 200)
    /\ [](pc = "idle" => \A k \in 1 .. Len(bones) : bones[k].y <= CANVAS_H + 5000)
    /\ [](Len(bones) <= 4)
    /\ [][ (pc = "loop" /\ Len(bones') = Len(bones)) =>
               /\ bones'[i + 1].y >= bones[i + 1].y + 200
               /\ bones'[i + 1].vy > bones[i + 1].vy ]_vars
    /\ [][ Len(bones') < Len(bones) =>
               \/ lastOp' = "resetGame"
               \/ pc = "loop" /\ Len(bones') = Len(bones) - 1 ]_vars

\* C19 witness: four objects alive between two frames, the oldest one below the
\* bottom of the canvas and about to leave
C19_Witness ==
    pc = "idle" /\ running /\ Len(bones) = 4 /\ bones[1].y > CANVAS_H

\* C20: no step returns mouseX to null; on a running tick with mouseX set the keys
\* have no influence on player.x; with no hand coordinate in use the player moves
\* towards the pointer, that is towards mouseX - player.w/2 kept inside
\* [0, CANVAS_W - player.w], gets strictly closer while more than one unit away,
\* and comes to rest only there, with the pointer inside the player's extent.
C20_PointerTakesOver ==
    /\ [][ mouseX # {} => mouseX' # {} ]_vars
    /\ [][ (RunningTick /\ mouseX # {}) =>
               player'.x = SmoothedTo(IF HandPresent THEN HandTarget ELSE PointerTarget) ]_vars
    /\ [][ (RunningTick /\ mouseX # {} /\ ~HandPresent) =>
               LET goal == IF PointerTarget > CANVAS_W - 12000 THEN CANVAS_W - 12000
                           ELSE IF PointerTarget < 0 THEN 0 ELSE PointerTarget
               IN  /\ Dist(player'.x, goal) <= Dist(player.x, goal)
                   /\ Dist(player.x, goal) > 1 => Dist(player'.x, goal) < Dist(player.x, goal)
                   /\ player'.x = player.x =>
                          /\ Dist(player.x, goal) <= 1
                          /\ player.x - 1 <= Val(mouseX)
                          /\ Val(mouseX) <= player.x + 12000 + 1 ]_vars

\* C20 witness: with the pointer on the right edge and a left key held, running
\* ticks have carried the player from the middle to the right clamp
C20_Witness ==
    /\ lastOp = "update" /\ prevOp = "update" /\ running /\ pc = "idle"
    /\ mouseX = {CANVAS_W} /\ "arrowleft" \in keys /\ ~useHandControl
    /\ player.x = CANVAS_W - 12000 /\ ticksLeft = 0 /\ lives = 3

====
